---------------------------- MODULE Spec2Model ----------------------------
(***************************************************************************)
(* A model of eventcalls: Routine (eventcalls/__init__.py) driving an      *)
(* EventSource into an EventHandler on a worker thread, and the            *)
(* cancellable input streams of eventcalls/io.py (InputStream, DatagramIO, *)
(* SerialIO).                                                              *)
(*                                                                         *)
(* Two threads are modelled: the caller (owner of the Routine) and the     *)
(* worker (Routine.run).  Every step is one access to state the two        *)
(* threads share: the running flag, the thread object, the cancellation    *)
(* flag, the stream's endpoint field and the transport itself.             *)
(*                                                                         *)
(* Environment assumptions: handler.handle and handler.done return         *)
(* normally; setup, initialized and finalize return or raise; a transport  *)
(* close itself does not fail.                                             *)
(***************************************************************************)
EXTENDS Naturals, Sequences, FiniteSets, TLC

\* ------------------------------------------------------------------ bounds
MaxEvents == 2      \* events a finite (list) source yields at most
MaxDatagrams == 1   \* messages arriving at a datagram / serial endpoint
MaxTimeouts == 1    \* idle readiness waits that time out before a cancel
MaxOps == 2         \* public operations the caller invokes after construction

\* ------------------------------------------------------------------ values
None == "None"
SetupValue == "v42"        \* a value returned by setup()
FinalValue == "vfin"       \* a value returned by finalize()
ReadError == "ReadError"   \* an OSError raised by the event sequence
StreamIsClosed == "StreamIsClosed"   \* io.StreamIsClosed, an OSError
FinalizeError == "FinalizeError"     \* an Exception raised by finalize()

Kinds == {"list", "datagram", "serial"}

VARIABLES
    cfg,        \* the construction: [kind, writable, startNow]
    running,    \* Routine.__running
    thread,     \* Routine.__thread: "new", "alive" or "dead"
    canceled,   \* InputStream.__canceled
    endpoint,   \* the stream's __endpoint field: "sock" or None
    sockOpen,   \* whether the transport behind the endpoint is open
    closeCalls, \* transport close() calls performed
    inbox,      \* messages waiting at the transport
    arrived,    \* messages that have arrived so far
    timeouts,   \* readiness waits that have timed out
    wpc,        \* the worker's position in run()
    status,     \* run()'s local `status`
    evt,        \* run()'s local `evt`
    events,     \* read_single()'s local `events`
    wexc,       \* the exception in flight on the worker
    raisedAt,   \* the cancellation flag when the read raised: "active" or "canceled"
    how,        \* how the event loop ended: "exhausted", "error", "canceled", "fault"
    produced,   \* what the event sequence has yielded, in order
    calls,      \* the hooks the worker has invoked, in order
    cpc,        \* the caller's position
    op,         \* the public operation the caller is in
    at,         \* the worker's position when that operation was invoked
    ops,        \* public operations invoked so far
    last,       \* the outcome of the public operation completed last
    srcWrites   \* source.write() calls performed

stream == <<canceled, endpoint, sockOpen, closeCalls>>
env == <<inbox, arrived, timeouts>>
wlocal == <<wpc, status, evt, events, wexc, raisedAt, how, produced, calls>>
clocal == <<cpc, op, at, ops, last, srcWrites>>
vars == <<cfg, running, thread, stream, env, wlocal, clocal>>

Result(o, r, a) == [op |-> o, res |-> r, at |-> a]

IsStream == cfg.kind \in {"datagram", "serial"}

\* ------------------------------------------------------------------- Init
\* The state when Routine.__init__ has run up to `self.__running = False`.
Init ==
    /\ cfg \in [kind : Kinds, writable : BOOLEAN, startNow : BOOLEAN]
    /\ (cfg.kind # "list" => ~cfg.writable)
    /\ running = FALSE
    /\ thread = "new"
    /\ canceled = FALSE
    /\ endpoint = "sock"
    /\ sockOpen = TRUE
    /\ closeCalls = 0
    /\ inbox = 0
    /\ arrived = 0
    /\ timeouts = 0
    /\ wpc = "idle"
    /\ status = None
    /\ evt = None
    /\ events = "empty"
    /\ wexc = None
    /\ how = "running"
    /\ raisedAt = "none"
    /\ produced = <<>>
    /\ calls = <<>>
    /\ cpc = IF cfg.startNow THEN "ctor_start" ELSE "idle"
    /\ op = "init"
    /\ at = "idle"
    /\ ops = 0
    /\ last = Result("init", IF cfg.startNow THEN "pending" ELSE "ok", "idle")
    /\ srcWrites = 0


\* ----------------------------------------------------------------- helpers
IsOSError(e) == e \in {ReadError, StreamIsClosed}

Call(name, arg) == [hook |-> name, arg |-> arg]

\* The events handed to handler.handle so far, in order.
RECURSIVE Handled(_)
Handled(log) ==
    IF log = <<>> THEN <<>>
    ELSE IF Head(log).hook = "handle"
         THEN <<Head(log).arg>> \o Handled(Tail(log))
         ELSE Handled(Tail(log))

\* How many times `name` was invoked.
Count(name) == Cardinality({i \in DOMAIN calls : calls[i].hook = name})

\* The positions in `calls` of the invocations of `name`.
Where(name) == {i \in DOMAIN calls : calls[i].hook = name}

\* --------------------------------------------------------- the worker: run
\* status = self.source.setup()
SetupOutcomes == IF cfg.kind = "list" THEN {None, SetupValue, "raise"} ELSE {None}

\* Mutant of RunSetup: setup() is called inside the try block, so a failure
\* of it still runs the finally block.
RunSetupInsideTry ==
    /\ wpc = "setup"
    /\ \E out \in SetupOutcomes :
          /\ calls' = Append(calls, Call("setup", out))
          /\ IF out = "raise"
             THEN /\ wpc' = "fin"
                  /\ wexc' = "SetupError"
                  /\ UNCHANGED <<status, thread>>
             ELSE /\ wpc' = "init"
                  /\ status' = out
                  /\ UNCHANGED <<thread, wexc>>
    /\ UNCHANGED <<raisedAt, how, cfg, running, stream, env, evt, events, produced, clocal>>

RunSetup ==
    /\ wpc = "setup"
    /\ \E out \in SetupOutcomes :
          /\ calls' = Append(calls, Call("setup", out))
          /\ IF out = "raise"
             THEN /\ wpc' = "dead"
                  /\ thread' = "dead"
                  /\ wexc' = "SetupError"
                  /\ UNCHANGED status
             ELSE /\ wpc' = "init"
                  /\ status' = out
                  /\ UNCHANGED <<thread, wexc>>
    /\ UNCHANGED <<raisedAt, how, cfg, running, stream, env, evt, events, produced, clocal>>

\* Mutant of RunInitialized: initialized is called without the value that
\* setup() returned.
RunInitializedDropsStatus ==
    /\ wpc = "init"
    /\ calls' = Append(calls, Call("initialized", None))
    /\ \E raises \in BOOLEAN :
          IF raises
          THEN /\ wpc' = "dead"
               /\ thread' = "dead"
               /\ wexc' = "HandlerError"
               /\ UNCHANGED status
          ELSE /\ wpc' = "iter"
               /\ status' = None
               /\ UNCHANGED <<thread, wexc>>
    /\ UNCHANGED <<raisedAt, how, cfg, running, stream, env, evt, events, produced, clocal>>

\* self.handler.initialized(status); status = None
RunInitialized ==
    /\ wpc = "init"
    /\ calls' = Append(calls, Call("initialized", status))
    /\ \E raises \in BOOLEAN :
          IF raises
          THEN /\ wpc' = "dead"
               /\ thread' = "dead"
               /\ wexc' = "HandlerError"
               /\ UNCHANGED status
          ELSE /\ wpc' = "iter"
               /\ status' = None
               /\ UNCHANGED <<thread, wexc>>
    /\ UNCHANGED <<raisedAt, how, cfg, running, stream, env, evt, events, produced, clocal>>

\* for evt in self.source: a finite source yields its next event
ListYield ==
    /\ wpc = "iter"
    /\ cfg.kind = "list"
    /\ Len(produced) < MaxEvents
    /\ evt' = ToString(Len(produced) + 1)
    /\ produced' = Append(produced, evt')
    /\ wpc' = "handle"
    /\ UNCHANGED <<raisedAt, how, cfg, running, thread, stream, env, status, events, wexc, calls, clocal>>

\* for evt in self.source: the sequence ends (StopIteration)
ListExhaust ==
    /\ wpc = "iter"
    /\ cfg.kind = "list"
    /\ wpc' = "fin"
    /\ how' = "exhausted"
    /\ UNCHANGED <<raisedAt, cfg, running, thread, stream, env, status, evt, events, wexc,
                   produced, calls, clocal>>

\* for evt in self.source: the sequence raises an OSError
ListError ==
    /\ wpc = "iter"
    /\ cfg.kind = "list"
    /\ wexc' = ReadError
    /\ wpc' = "except"
    /\ how' = "error"
    /\ raisedAt' = "active"
    /\ UNCHANGED <<cfg, running, thread, stream, env, status, evt, events,
                   produced, calls, clocal>>

\* Mutant of RunHandle: the event is pulled but never handed to the handler.
RunHandleSkip ==
    /\ wpc = "handle"
    /\ wpc' = "iter"
    /\ UNCHANGED <<raisedAt, how, cfg, running, thread, stream, env, status, evt,
                   events, wexc, produced, calls, clocal>>

\* self.handler.handle(evt)
RunHandle ==
    /\ wpc = "handle"
    /\ calls' = Append(calls, Call("handle", evt))
    /\ wpc' = "iter"
    /\ UNCHANGED <<raisedAt, how, cfg, running, thread, stream, env, status, evt, events, wexc,
                   produced, clocal>>

\* except OSError as e: status = e; self.__running = False
RunExcept ==
    /\ wpc = "except"
    /\ status' = wexc
    /\ running' = FALSE
    /\ wexc' = None
    /\ wpc' = "fin"
    /\ UNCHANGED <<raisedAt, how, cfg, thread, stream, env, evt, events, produced, calls, clocal>>

\* finally: try: self.source.finalize()
FinalizeOutcomes == IF cfg.kind = "list" THEN {None, FinalValue, "raise"} ELSE {None}

RunFinalize ==
    /\ wpc = "fin"
    /\ \E out \in FinalizeOutcomes :
          /\ calls' = Append(calls, Call("finalize", out))
          /\ wpc' = IF out = "raise" THEN "fin_exc" ELSE "fin_ok"
    /\ UNCHANGED <<raisedAt, how, cfg, running, thread, stream, env, status, evt, events, wexc,
                   produced, clocal>>

\* Mutant of RunFinalizeOk: the flag is not cleared after finalize() returned.
RunFinalizeOkKeepsRunning ==
    /\ wpc = "fin_ok"
    /\ wpc' = "done"
    /\ UNCHANGED <<raisedAt, how, cfg, running, thread, stream, env, status, evt,
                   events, wexc, produced, calls, clocal>>

\* self.__running = False, after finalize() returned; its value is dropped
RunFinalizeOk ==
    /\ wpc = "fin_ok"
    /\ running' = FALSE
    /\ wpc' = "done"
    /\ UNCHANGED <<raisedAt, how, cfg, thread, stream, env, status, evt, events, wexc, produced,
                   calls, clocal>>

\* Mutant of RunFinalizeExc: an error of the read loop is kept as the status
\* (first error wins).
RunFinalizeExcKeepsFirst ==
    /\ wpc = "fin_exc"
    /\ status' = IF status = None THEN FinalizeError ELSE status
    /\ running' = FALSE
    /\ wpc' = "done"
    /\ UNCHANGED <<raisedAt, how, cfg, thread, stream, env, evt, events, wexc,
                   produced, calls, clocal>>

\* Mutant of RunFinalizeExc: no handler for the failure of finalize(), which
\* ends the thread before done() is reached.
RunFinalizeExcEscapes ==
    /\ wpc = "fin_exc"
    /\ wexc' = FinalizeError
    /\ wpc' = "dead"
    /\ thread' = "dead"
    /\ UNCHANGED <<raisedAt, how, cfg, running, stream, env, status, evt, events,
                   produced, calls, clocal>>

\* except Exception as e: status = e; self.__running = False
RunFinalizeExc ==
    /\ wpc = "fin_exc"
    /\ status' = FinalizeError
    /\ running' = FALSE
    /\ wpc' = "done"
    /\ UNCHANGED <<raisedAt, how, cfg, thread, stream, env, evt, events, wexc, produced, calls,
                   clocal>>

\* finally: self.handler.done(status); run() ends and the thread with it
RunDone ==
    /\ wpc = "done"
    /\ calls' = Append(calls, Call("done", status))
    /\ wpc' = "dead"
    /\ thread' = "dead"
    /\ UNCHANGED <<raisedAt, how, cfg, running, stream, env, status, evt, events, wexc, produced,
                   clocal>>


\* ------------------------------------------- the worker: DatagramIO's reads
FlagNow == IF canceled THEN "canceled" ELSE "active"

\* events = self.__selector.select(self.timeout): the endpoint is readable
SelectReady ==
    /\ wpc = "iter"
    /\ cfg.kind = "datagram"
    /\ sockOpen
    /\ inbox > 0
    /\ events' = "ready"
    /\ wpc' = "chk"
    /\ UNCHANGED <<cfg, running, thread, stream, env, status, evt, wexc, raisedAt,
                   how, produced, calls, clocal>>

\* events = self.__selector.select(self.timeout): the wait times out
SelectTimeout ==
    /\ wpc = "iter"
    /\ cfg.kind = "datagram"
    /\ inbox = 0 \/ ~sockOpen
    /\ timeouts < MaxTimeouts \/ canceled \/ ~sockOpen
    /\ timeouts' = IF canceled \/ ~sockOpen THEN timeouts ELSE timeouts + 1
    /\ events' = "empty"
    /\ wpc' = "chk"
    /\ UNCHANGED <<cfg, running, thread, stream, inbox, arrived, status, evt, wexc,
                   raisedAt, how, produced, calls, clocal>>

\* events = self.__selector.select(self.timeout): the wait on a closed
\* transport fails with an OSError (selectors that do not drop a closed fd)
SelectClosed ==
    /\ wpc = "iter"
    /\ cfg.kind = "datagram"
    /\ ~sockOpen
    /\ wexc' = ReadError
    /\ raisedAt' = FlagNow
    /\ wpc' = "rsexc"
    /\ UNCHANGED <<cfg, running, thread, stream, env, status, evt, events, how,
                   produced, calls, clocal>>

\* Mutant of ReadCheckCanceled: the read goes on whatever the flag says.
ReadCheckIgnoresFlag ==
    /\ wpc = "chk"
    /\ wpc' = "recv"
    /\ UNCHANGED <<cfg, running, thread, stream, env, status, evt, events, wexc,
                   raisedAt, how, produced, calls, clocal>>

\* if self.canceled:
ReadCheckCanceled ==
    /\ wpc = "chk"
    /\ wpc' = IF canceled THEN "wclose_chk" ELSE "recv"
    /\ UNCHANGED <<cfg, running, thread, stream, env, status, evt, events, wexc,
                   raisedAt, how, produced, calls, clocal>>

\* self.close() on the worker: if self.__endpoint:
\* (an endpoint already None: close() returns and StreamIsClosed is raised)
WorkerCloseCheck ==
    /\ wpc = "wclose_chk"
    /\ IF endpoint = None
       THEN /\ wexc' = StreamIsClosed
            /\ raisedAt' = FlagNow
            /\ wpc' = "rsexc"
       ELSE /\ wpc' = "wclose_call"
            /\ UNCHANGED <<wexc, raisedAt>>
    /\ UNCHANGED <<cfg, running, thread, stream, env, status, evt, events, how,
                   produced, calls, clocal>>

\* self.close() on the worker: self.__endpoint.close()
\* (None has no close(): an AttributeError, which no handler up to the
\* iterator catches)
WorkerCloseCall ==
    /\ wpc = "wclose_call"
    /\ IF endpoint = None
       THEN /\ wexc' = "AttributeError"
            /\ raisedAt' = FlagNow
            /\ wpc' = "iterexc"
            /\ UNCHANGED <<sockOpen, closeCalls>>
       ELSE /\ sockOpen' = FALSE
            /\ closeCalls' = closeCalls + 1
            /\ wpc' = "wclose_none"
            /\ UNCHANGED <<wexc, raisedAt>>
    /\ UNCHANGED <<cfg, running, thread, canceled, endpoint, env, status, evt,
                   events, how, produced, calls, clocal>>

\* self.close() on the worker: self.__endpoint = None; then
\* raise StreamIsClosed(...)
WorkerCloseNone ==
    /\ wpc = "wclose_none"
    /\ endpoint' = None
    /\ wexc' = StreamIsClosed
    /\ raisedAt' = FlagNow
    /\ wpc' = "rsexc"
    /\ UNCHANGED <<cfg, running, thread, canceled, sockOpen, closeCalls, env,
                   status, evt, events, how, produced, calls, clocal>>

\* for key, mask in events: nothing is ready, read_single() returns None,
\* which the iterator yields
ReadNothing ==
    /\ wpc = "recv"
    /\ events = "empty"
    /\ evt' = None
    /\ produced' = Append(produced, None)
    /\ wpc' = "handle"
    /\ UNCHANGED <<cfg, running, thread, stream, env, status, events, wexc,
                   raisedAt, how, calls, clocal>>

\* return self.__endpoint.recvfrom(self.buffersize): a datagram, or an
\* OSError of the transport; AttributeError when the endpoint is None
ReadDatagram ==
    /\ wpc = "recv"
    /\ events = "ready"
    /\ \/ /\ endpoint = None
          /\ wexc' = "AttributeError"
          /\ raisedAt' = FlagNow
          /\ wpc' = "iterexc"
          /\ UNCHANGED <<inbox, evt, produced>>
       \/ /\ endpoint # None
          /\ ~sockOpen
          /\ wexc' = ReadError
          /\ raisedAt' = FlagNow
          /\ wpc' = "rsexc"
          /\ UNCHANGED <<inbox, evt, produced>>
       \/ /\ endpoint # None
          /\ sockOpen
          /\ inbox > 0
          /\ inbox' = inbox - 1
          /\ evt' = ToString(arrived - inbox + 1)
          /\ produced' = Append(produced, evt')
          /\ wpc' = "handle"
          /\ UNCHANGED <<wexc, raisedAt>>
       \/ /\ endpoint # None
          /\ sockOpen
          /\ wexc' = ReadError
          /\ raisedAt' = FlagNow
          /\ wpc' = "rsexc"
          /\ UNCHANGED <<inbox, evt, produced>>
    /\ UNCHANGED <<cfg, running, thread, stream, arrived, timeouts, status, events,
                   how, calls, clocal>>

\* except OSError: self.__endpoint = None; raise
ReadExcept ==
    /\ wpc = "rsexc"
    /\ endpoint' = None
    /\ wpc' = "iterexc"
    /\ UNCHANGED <<cfg, running, thread, canceled, sockOpen, closeCalls, env,
                   status, evt, events, wexc, raisedAt, how, produced, calls, clocal>>

\* Mutant of IterExcept: the iterator raises again whatever the flag says.
IterExceptAlwaysRaises ==
    /\ wpc = "iterexc"
    /\ IF IsOSError(wexc)
       THEN /\ how' = "error"
            /\ wpc' = "except"
       ELSE /\ how' = "fault"
            /\ wpc' = "fin"
    /\ UNCHANGED <<cfg, running, thread, stream, env, status, evt, events, wexc,
                   raisedAt, produced, calls, clocal>>

\* ---------------------------------------------- the worker: InputStream
\* InputStream.__iter__: except: if not self.canceled: raise
\* Swallowed, the generator returns and the for loop of run() ends; raised
\* again, an OSError reaches run()'s handler and anything else only its
\* finally block.
IterExcept ==
    /\ wpc = "iterexc"
    /\ IF canceled
       THEN /\ wexc' = None
            /\ how' = "canceled"
            /\ wpc' = "fin"
       ELSE IF IsOSError(wexc)
       THEN /\ how' = "error"
            /\ wpc' = "except"
            /\ UNCHANGED wexc
       ELSE /\ how' = "fault"
            /\ wpc' = "fin"
            /\ UNCHANGED wexc
    /\ UNCHANGED <<cfg, running, thread, stream, env, status, evt, events,
                   raisedAt, produced, calls, clocal>>

\* -------------------------------------------- the worker: SerialIO's reads
\* SerialIO.read_single: self.__endpoint.read(1) until a message is complete.
\* With nothing to read on an open port the read stays parked.
SerialRead ==
    /\ wpc = "iter"
    /\ cfg.kind = "serial"
    /\ \/ /\ endpoint = None
          /\ wexc' = "AttributeError"
          /\ raisedAt' = FlagNow
          /\ wpc' = "iterexc"
          /\ UNCHANGED <<inbox, evt, produced>>
       \/ /\ endpoint # None
          /\ ~sockOpen
          /\ wexc' = ReadError
          /\ raisedAt' = FlagNow
          /\ wpc' = "iterexc"
          /\ UNCHANGED <<inbox, evt, produced>>
       \/ /\ endpoint # None
          /\ sockOpen
          /\ inbox > 0
          /\ inbox' = inbox - 1
          /\ evt' = ToString(arrived - inbox + 1)
          /\ produced' = Append(produced, evt')
          /\ wpc' = "handle"
          /\ UNCHANGED <<wexc, raisedAt>>
       \/ /\ endpoint # None
          /\ sockOpen
          /\ wexc' = ReadError
          /\ raisedAt' = FlagNow
          /\ wpc' = "iterexc"
          /\ UNCHANGED <<inbox, evt, produced>>
    /\ UNCHANGED <<cfg, running, thread, stream, arrived, timeouts, status, events,
                   how, calls, clocal>>

Worker ==
    \/ RunSetup \/ RunInitialized
    \/ ListYield \/ ListExhaust \/ ListError
    \/ SelectReady \/ SelectTimeout \/ SelectClosed \/ ReadCheckCanceled
    \/ WorkerCloseCheck \/ WorkerCloseCall \/ WorkerCloseNone
    \/ ReadNothing \/ ReadDatagram \/ ReadExcept \/ IterExcept
    \/ SerialRead
    \/ RunHandle \/ RunExcept \/ RunFinalize \/ RunFinalizeOk \/ RunFinalizeExc
    \/ RunDone


\* ------------------------------------------------- the caller: the Routine
Finish(r) ==
    /\ last' = (Result(op, r, at))
    /\ cpc' = "idle"

Begin(name) ==
    /\ cpc = "idle"
    /\ ops < MaxOps
    /\ ops' = ops + 1
    /\ op' = name
    /\ at' = wpc

\* Routine.__init__ with start == True: self.__thread.start()
CtorStart ==
    /\ cpc = "ctor_start"
    /\ thread' = "alive"
    /\ wpc' = "setup"
    /\ cpc' = "ctor_run"
    /\ UNCHANGED <<cfg, running, stream, env, status, evt, events, wexc, raisedAt,
                   how, produced, calls, op, at, ops, last, srcWrites>>

\* Routine.__init__ with start == True: self.__running = True
CtorRun ==
    /\ cpc = "ctor_run"
    /\ running' = TRUE
    /\ Finish("ok")
    /\ UNCHANGED <<cfg, thread, stream, env, wlocal, op, at, ops, srcWrites>>

\* Mutant of Start: a Routine whose worker has ended gets a fresh worker.
StartAgain ==
    /\ Begin("start")
    /\ IF thread = "alive"
       THEN /\ last' = (Result("start", "ok", wpc))
            /\ UNCHANGED <<cpc, thread, wpc>>
       ELSE /\ thread' = "alive"
            /\ wpc' = "setup"
            /\ cpc' = "start_run"
            /\ UNCHANGED last
    /\ UNCHANGED <<cfg, running, stream, env, status, evt, events, wexc, raisedAt,
                   how, produced, calls, srcWrites>>

\* Routine.start: if not self.__thread.is_alive(): self.__thread.start()
\* (Thread.start() on a thread that has already run raises RuntimeError)
Start ==
    /\ Begin("start")
    /\ IF thread = "alive"
       THEN /\ last' = (Result("start", "ok", wpc))
            /\ UNCHANGED <<cpc, thread, wpc>>
       ELSE IF thread = "new"
       THEN /\ thread' = "alive"
            /\ wpc' = "setup"
            /\ cpc' = "start_run"
            /\ UNCHANGED last
       ELSE /\ last' = (Result("start", "RuntimeError", wpc))
            /\ UNCHANGED <<cpc, thread, wpc>>
    /\ UNCHANGED <<cfg, running, stream, env, status, evt, events, wexc, raisedAt,
                   how, produced, calls, srcWrites>>

\* Routine.start: self.__running = True
StartRun ==
    /\ cpc = "start_run"
    /\ running' = TRUE
    /\ Finish("ok")
    /\ UNCHANGED <<cfg, thread, stream, env, wlocal, op, at, ops, srcWrites>>

\* Routine.is_running
IsRunning ==
    /\ Begin("is_running")
    /\ last' = (Result("is_running", ToString(running), wpc))
    /\ UNCHANGED <<cfg, running, thread, stream, env, wlocal, cpc, srcWrites>>

\* Mutant of Write: the source is probed for a write method instead of the
\* Writable interface (the streams of io.py have one).
WriteDuckTyped ==
    /\ Begin("write")
    /\ IF cfg.writable \/ IsStream
       THEN /\ srcWrites' = srcWrites + 1
            /\ last' = (Result("write", "ok", wpc))
       ELSE /\ last' = (Result("write", "AttributeError", wpc))
            /\ UNCHANGED srcWrites
    /\ UNCHANGED <<cfg, running, thread, stream, env, wlocal, cpc>>

\* Routine.write
Write ==
    /\ Begin("write")
    /\ IF cfg.writable
       THEN /\ srcWrites' = srcWrites + 1
            /\ last' = (Result("write", "ok", wpc))
       ELSE /\ last' = (Result("write", "AttributeError", wpc))
            /\ UNCHANGED srcWrites
    /\ UNCHANGED <<cfg, running, thread, stream, env, wlocal, cpc>>

\* Routine.stop: self.source.cancel(), which EventSource leaves empty
Stop ==
    /\ Begin("stop")
    /\ cpc' = IF IsStream THEN "cancel_set" ELSE "join"
    /\ UNCHANGED <<cfg, running, thread, stream, env, wlocal, last, srcWrites>>

\* InputStream.cancel: self.__canceled.set()
CancelSet ==
    /\ cpc = "cancel_set"
    /\ canceled' = TRUE
    /\ cpc' = IF cfg.kind = "datagram" THEN "close_chk" ELSE "close_call"
    /\ UNCHANGED <<cfg, running, thread, endpoint, sockOpen, closeCalls, env,
                   wlocal, op, at, ops, last, srcWrites>>

\* DatagramIO.close: if self.__endpoint:
CloseCheck ==
    /\ cpc = "close_chk"
    /\ cpc' = IF endpoint = None THEN "join" ELSE "close_call"
    /\ UNCHANGED <<cfg, running, thread, stream, env, wlocal, op, at, ops,
                   last, srcWrites>>

\* DatagramIO.close / SerialIO.close: self.__endpoint.close()
\* (None has no close(): an AttributeError, which neither close() nor
\* cancel() catches, so it leaves stop())
CloseCall ==
    /\ cpc = "close_call"
    /\ IF endpoint = None
       THEN /\ Finish("AttributeError")
            /\ UNCHANGED <<sockOpen, closeCalls>>
       ELSE /\ sockOpen' = FALSE
            /\ closeCalls' = closeCalls + 1
            /\ cpc' = "close_none"
            /\ UNCHANGED last
    /\ UNCHANGED <<cfg, running, thread, canceled, endpoint, env, wlocal, op, at,
                   ops, srcWrites>>

\* DatagramIO.close / SerialIO.close: self.__endpoint = None
CloseNone ==
    /\ cpc = "close_none"
    /\ endpoint' = None
    /\ cpc' = "join"
    /\ UNCHANGED <<cfg, running, thread, canceled, sockOpen, closeCalls, env,
                   wlocal, op, at, ops, last, srcWrites>>

\* Mutant of Join: joining a thread that has already ended is refused.
JoinLiveOnly ==
    /\ cpc = "join"
    /\ thread # "alive"
    /\ Finish(IF thread = "new" \/ thread = "dead" THEN "RuntimeError" ELSE "ok")
    /\ UNCHANGED <<cfg, running, thread, stream, env, wlocal, op, at, ops,
                   srcWrites>>

\* Routine.stop: self.__thread.join()
\* (Thread.join() on a thread never started raises RuntimeError; on a live
\* thread it waits)
Join ==
    /\ cpc = "join"
    /\ thread # "alive"
    /\ Finish(IF thread = "new" THEN "RuntimeError" ELSE "ok")
    /\ UNCHANGED <<cfg, running, thread, stream, env, wlocal, op, at, ops,
                   srcWrites>>

Caller ==
    \/ CtorStart \/ CtorRun
    \/ Start \/ StartRun \/ IsRunning \/ Write
    \/ Stop \/ CancelSet \/ CloseCheck \/ CloseCall \/ CloseNone \/ Join

\* ---------------------------------------------------------- the transport
\* A message arrives at the open endpoint.
Arrive ==
    /\ IsStream
    /\ sockOpen
    /\ arrived < MaxDatagrams
    /\ inbox' = inbox + 1
    /\ arrived' = arrived + 1
    /\ UNCHANGED <<cfg, running, thread, stream, timeouts, wlocal, clocal>>

Next == Caller \/ Worker \/ Arrive

Spec == Init /\ [][Next]_vars

\* The scheduler runs the worker thread, and the caller finishes the
\* operation it is in; the caller need not invoke anything further.
CallerStep ==
    \/ CtorStart \/ CtorRun \/ StartRun
    \/ CancelSet \/ CloseCheck \/ CloseCall \/ CloseNone \/ Join

\* is_running() and write() change nothing the worker reads: the runs checked
\* for progress leave them out.
FairNext ==
    \/ CtorStart \/ CtorRun \/ Start \/ StartRun
    \/ Stop \/ CancelSet \/ CloseCheck \/ CloseCall \/ CloseNone \/ Join
    \/ Worker \/ Arrive

FairSpec == Init /\ [][FairNext]_vars /\ WF_vars(Worker) /\ WF_vars(CallerStep)


\* ================================================================= claims
IsHandlerCall(c) == c.hook \in {"initialized", "handle", "done"}

\* The handler's callbacks, in the order the worker made them.
HandlerCalls == SelectSeq(calls, IsHandlerCall)

\* The status handed to handler.done (None before done is called).
DoneArg == IF Where("done") = {} THEN None ELSE calls[CHOOSE i \in Where("done") : TRUE].arg

FinalizeRaised == \E i \in Where("finalize") : calls[i].arg = "raise"

Stopped == wpc = "dead"

\* C1: a source that yields N events and then ends naturally gets
\* initialized once, then handle once per event in the order the events were
\* produced, then done once; in every state before that, the callbacks made
\* so far are a prefix of that sequence (no handle before initialized, none
\* after done).
C1_ExhaustedOrder ==
    how \in {"running", "exhausted"} =>
        LET h == HandlerCalls IN
        /\ \A i \in DOMAIN h : (h[i].hook = "initialized") <=> (i = 1)
        /\ \A i \in DOMAIN h : h[i].hook = "done" => i = Len(h)
        /\ \A i \in DOMAIN h :
              h[i].hook = "handle" => i - 1 <= Len(produced) /\ h[i].arg = produced[i - 1]
        /\ (Stopped /\ how = "exhausted") =>
              /\ Len(h) = Len(produced) + 2
              /\ h[Len(h)].hook = "done"
              /\ Handled(calls) = produced

C1_Witness ==
    /\ Stopped
    /\ how = "exhausted"
    /\ Len(produced) = MaxEvents
    /\ Handled(calls) = produced
    /\ Count("done") = 1

\* C2: done is called at most once, only after finalize() has been invoked
\* and after every handle call, and it ends the thread; and once the event
\* loop has ended (exhaustion, read error or cancel; finalize() returning or
\* raising), done is eventually called exactly once and the worker thread
\* terminates.
C2_DoneSafe ==
    /\ Count("done") <= 1
    /\ \A d \in Where("done") :
          /\ \E f \in Where("finalize") : f < d
          /\ \A h \in Where("handle") : h < d
          /\ d = Len(calls)
          /\ thread = "dead"

C2_DoneOnce ==
    /\ []C2_DoneSafe
    /\ (how # "running") ~> (Count("done") = 1 /\ thread = "dead")

C2_Witness ==
    /\ Stopped
    /\ how = "error"
    /\ FinalizeRaised
    /\ Count("done") = 1
    /\ Count("handle") > 0


\* C3: stop() invoked while the worker of a Routine over a datagram stream
\* is parked in a read, with nothing to read and nothing arriving any more,
\* leads (every readiness wait timing out rather than failing) to the worker
\* leaving the read, done being called with status None, and stop()
\* returning.
C3_ParkedStop ==
    /\ cfg.kind = "datagram"
    /\ op = "stop"
    /\ cpc = "cancel_set"
    /\ at = "iter"
    /\ wpc = "iter"
    /\ inbox = 0
    /\ arrived = MaxDatagrams

C3_WaitsTimeOut == wexc # ReadError

C3_StopUnblocks ==
    [](C3_ParkedStop /\ []C3_WaitsTimeOut
          => <>(/\ Count("done") = 1
                /\ DoneArg = None
                /\ last = Result("stop", "ok", "iter")))


\* C4: stop() invoked after the source has ended naturally and the worker
\* has stopped on its own returns normally, and done has been called exactly
\* once in all.
C4_StopAfterExhaustion ==
    (last.op = "stop" /\ last.at = "dead" /\ how = "exhausted") =>
        /\ last.res = "ok"
        /\ Count("done") = 1

C4_Witness ==
    /\ last = Result("stop", "ok", "dead")
    /\ how = "exhausted"
    /\ Count("done") = 1
    /\ Count("handle") > 0

\* C5 as stated: an error a read raised while the cancellation flag was not
\* set is the status passed to done, and after an error a read raised while
\* the flag was set done gets no error status.
C5_ErrorByFlagAtRaise ==
    \A d \in Where("done") :
        /\ raisedAt = "active" => calls[d].arg = ReadError
        /\ raisedAt = "canceled" => calls[d].arg = None

\* C5 as amended: what decides is the flag when the error is inspected (by
\* InputStream's iterator), and finalize() not raising afterwards. An error
\* that leaves the event sequence was raised with the flag unset and, unless
\* finalize() raises, is the status passed to done; an error met with the
\* flag set, whether set before the read raised or between the raise and the
\* inspection, is swallowed and, unless finalize() raises, done gets None.
C5_ErrorByFlagAtInspection ==
    \A d \in Where("done") :
        /\ how = "error" => raisedAt = "active"
        /\ (how = "error" /\ ~FinalizeRaised) => calls[d].arg = ReadError
        /\ raisedAt = "canceled" => how = "canceled"
        /\ (how = "canceled" /\ ~FinalizeRaised) => calls[d].arg = None

C5_Witness ==
    /\ cfg.kind = "datagram"
    /\ Count("done") = 1
    /\ how = "error"
    /\ raisedAt = "active"
    /\ DoneArg = ReadError

\* C6: the status passed to done is what finalize() decided: the failure it
\* raised, otherwise the value it returned.
C6_FinalizeDecidesStatus ==
    \A d \in Where("done") : \A f \in Where("finalize") :
        calls[d].arg = IF calls[f].arg = "raise" THEN FinalizeError ELSE calls[f].arg

\* C7: a failure of finalize() is the status passed to done, also when a
\* read error had been captured before it (the last error wins), and a
\* stop() on the started Routine returns normally all the same.
C7_FinalizeFailureCaptured ==
    FinalizeRaised =>
        /\ \A d \in Where("done") : calls[d].arg = FinalizeError
        /\ (last.op = "stop" /\ last.at # "idle") => last.res = "ok"

C7_Witness ==
    /\ how = "error"
    /\ FinalizeRaised
    /\ DoneArg = FinalizeError
    /\ Count("done") = 1
    /\ last.op = "stop"
    /\ last.res = "ok"

\* C8: write() on a source that is not Writable raises AttributeError, calls
\* no write of the source and changes nothing of the worker or the stream,
\* in whatever state it is invoked; on a Writable source it calls
\* source.write exactly once.
C8_WriteStep ==
    (op' = "write" /\ ops' = ops + 1) =>
        /\ UNCHANGED <<running, thread, stream, env, wlocal>>
        /\ IF cfg.writable
           THEN srcWrites' = srcWrites + 1 /\ last' = Result("write", "ok", wpc)
           ELSE srcWrites' = srcWrites /\ last' = Result("write", "AttributeError", wpc)

C8_Write == [](~cfg.writable => srcWrites = 0) /\ [][C8_WriteStep]_vars

C8_Witness ==
    /\ cfg.kind = "datagram"
    /\ last = Result("write", "AttributeError", "handle")
    /\ running
    /\ srcWrites = 0

\* C9: no public operation other than write() ends by raising to its caller.
C9_OnlyWriteRaises ==
    last.op # "write" => last.res \notin {"RuntimeError", "AttributeError"}

\* C10: on a datagram or serial stream, a cancel() (and the close() in it)
\* made when no worker is running, so with nothing concurrent, raises
\* nothing.
C10_SequentialCancelIsQuiet ==
    (IsStream /\ last.op = "stop" /\ last.at \in {"idle", "dead"}) =>
        last.res # "AttributeError"


\* C11: over a datagram stream handle is called only for datagrams actually
\* received, never for a readiness wait that timed out: no handle call gets
\* None, and there are no more handle calls than datagrams that arrived.
C11_TimeoutYieldsNothing ==
    cfg.kind = "datagram" =>
        /\ \A h \in Where("handle") : calls[h].arg # None
        /\ Count("handle") <= arrived

\* C12: initialized gets exactly the value setup() returned, after setup()
\* has returned and before any handle call.
C12_SetupValueForwarded ==
    \A i \in Where("initialized") :
        /\ i = 2
        /\ calls[1].hook = "setup"
        /\ calls[i].arg = calls[1].arg
        /\ \A h \in Where("handle") : i < h

C12_Witness ==
    /\ Count("initialized") = 1
    /\ calls[2] = Call("initialized", SetupValue)
    /\ Count("handle") > 0


\* C13: a Routine runs at most one worker: run() begins at most once
\* whatever the caller invokes, and a start() invoked while the worker is
\* alive returns having changed nothing.
C13_StartWhileAlive ==
    (op' = "start" /\ ops' = ops + 1 /\ thread = "alive") =>
        /\ UNCHANGED <<running, thread, stream, env, wlocal>>
        /\ last' = Result("start", "ok", wpc)

C13_OneWorker ==
    /\ [](Count("setup") <= 1 /\ Count("initialized") <= 1)
    /\ [][C13_StartWhileAlive]_vars

C13_Witness ==
    /\ last = Result("start", "ok", "iter")
    /\ Count("setup") = 1
    /\ Count("initialized") = 1
    /\ thread = "alive"


\* The step in which the worker invokes the hook `name`.
Invokes(name) ==
    /\ Len(calls') = Len(calls) + 1
    /\ calls'[Len(calls')].hook = name

C14_WorkerClearsStep ==
    /\ (wpc = "except" /\ wpc' = "fin") => ~running'
    /\ (Invokes("finalize") /\ how # "error") => running' = running
    /\ (wpc \in {"fin_ok", "fin_exc"} /\ wpc' = "done") => ~running'
    /\ Invokes("done") => wpc = "done"

C15_NotRunningOnceStopped ==
    (last.op = "is_running" /\ last.at = "dead" /\ Count("done") = 1) =>
        last.res = "FALSE"

\* C16: when stop() on the caller and the worker close the same datagram
\* stream concurrently, stop() does not raise out of cancel() and a
\* cancelled run passes no error to done.
C16_ConcurrentCloseIsQuiet ==
    cfg.kind = "datagram" =>
        /\ (last.op = "stop" /\ last.at \notin {"idle", "dead"}) =>
              last.res # "AttributeError"
        /\ (how = "canceled" /\ Count("done") = 1) => DoneArg = None

\* C17: the transport of a datagram stream is closed at most once.
C17_TransportClosedOnce ==
    cfg.kind = "datagram" => closeCalls <= 1


\* The worker of a cancelled datagram stream is at a point from which no
\* read can deliver: anywhere but past the flag check of a read ("recv") or
\* holding an event it has not handed over yet ("handle").
C18_NoMoreReads ==
    /\ cfg.kind = "datagram"
    /\ canceled
    /\ wpc \notin {"recv", "handle"}

C18_CanceledStep ==
    /\ canceled => canceled'
    /\ C18_NoMoreReads =>
          /\ C18_NoMoreReads'
          /\ produced' = produced
          /\ ~Invokes("handle")
          /\ how = "running" => how' \in {"running", "canceled"}
    /\ (cfg.kind = "datagram" /\ canceled /\ Invokes("handle")) => C18_NoMoreReads'

\* C18: the cancellation flag is never reset; a read of a datagram stream
\* whose wait starts with the flag set yields no event and ends the event
\* sequence with no error leaving the iterator; only a read already past the
\* flag check can still deliver, so at most one handle call starts after the
\* flag is set.
C18_CancelEndsReads ==
    /\ [][C18_CanceledStep]_vars
    /\ (cfg.kind = "datagram" /\ canceled /\ wpc = "iter") ~>
          (how = "canceled" /\ wpc \in {"fin", "fin_ok", "fin_exc", "done", "dead"})

\* a read past the flag check delivers a datagram after cancel() set the flag
C18_Witness ==
    /\ cfg.kind = "datagram"
    /\ canceled
    /\ wpc = "handle"
    /\ evt # None


\* C19: when stop() has returned, the transport of a datagram stream has
\* been closed, whichever way the run ended.
C19_StopClosesTransport ==
    (cfg.kind = "datagram" /\ cpc = "idle" /\ last.op = "stop" /\ last.res = "ok") =>
        ~sockOpen

\* setup() or handler.initialized raised on the worker
C20_FailedStart == wexc \in {"SetupError", "HandlerError"}

C20_NoLoop ==
    C20_FailedStart =>
        /\ wpc = "dead"
        /\ thread = "dead"
        /\ produced = <<>>
        /\ Count("handle") = 0
        /\ Count("finalize") = 0
        /\ Count("done") = 0

\* a stop() begun after the failure, before any cancel() of the source
C20_StopAfterFailure ==
    /\ C20_FailedStart
    /\ op = "stop"
    /\ at = "dead"
    /\ \/ cpc = "cancel_set" /\ ~canceled
       \/ cpc = "join" /\ ~IsStream

=============================================================================
